---- MODULE Spec2Model ----
(***************************************************************************)
(* A model of parsel/selector.py: Selector and SelectorList over a shared  *)
(* mutable element tree, a JSON value or a text.                           *)
(*                                                                         *)
(* A character string is a sequence of characters, each a string of length *)
(* one; "NUL" stands for the character U+0000, and a text given to the     *)
(* constructor holds the start tag <a> as one unit, "<a>", of three        *)
(* characters.  A Python value is a record tagged by k: None, a string, a  *)
(* number, a list, a dict, or a handle of an element of the tree.          *)
(***************************************************************************)
EXTENDS Integers, Sequences, FiniteSets, TLC

VARIABLES
    tree,      \* the element arena: tree[n] is the lxml element with handle n
    sel,       \* the top-level Selector the caller constructed
    lst,       \* the SelectorList the caller holds
    result     \* what the last call was, and what it returned or raised

vars == <<tree, sel, lst, result>>

\* ------------------------------------------------------------------ bounds
NumNodes == 3
MaxList == 3
MaxLen == 3
MaxHeap == 9

\* ------------------------------------------------------------------ values
None == [k |-> "none"]
Str(s) == [k |-> "str", s |-> s]
Num(n) == [k |-> "num", n |-> n]
Elem(n) == [k |-> "elem", id |-> n]
Float(n) == [k |-> "float", n |-> n]
Bool(b) == [k |-> "bool", b |-> b]
List(items) == [k |-> "list", items |-> items]
\* a dict: its <<key, value>> pairs in insertion order
Dict(fields) == [k |-> "dict", fields |-> fields]
\* the _NOTSET sentinel of the root argument
NotSet == [k |-> "notset"]

IsStr(v) == v.k = "str"
IsElem(v) == v.k = "elem"

Chars == {" ", "NUL", "<a>", "x", "7", "\""}

\* the characters of a word
Spell(w) ==
    CASE w = "html" -> <<"h", "t", "m", "l">>
      [] w = "body" -> <<"b", "o", "d", "y">>
      [] w = "xmlns" -> <<"x", "m", "l", "n", "s">>
      [] w = "urn:a" -> <<"u", "r", "n", ":", "a">>
      [] w = "urn:b" -> <<"u", "r", "n", ":", "b">>
      [] w = "None" -> <<"N", "o", "n", "e">>
      [] w = "True" -> <<"T", "r", "u", "e">>
      [] w = "False" -> <<"F", "a", "l", "s", "e">>
      [] w = "<a>" -> <<"<", "a", ">">>
      [] OTHER -> <<w>>

RECURSIVE Characters(_)
\* the characters of a text, its start tags spelled out
Characters(s) == IF s = <<>> THEN <<>> ELSE Spell(Head(s)) \o Characters(Tail(s))

RECURSIVE SeqsUpTo(_, _)
SeqsUpTo(S, n) ==
    IF n = 0 THEN {<<>>}
    ELSE LET shorter == SeqsUpTo(S, n - 1)
         IN shorter \cup {Append(s, c) : s \in {t \in shorter : Len(t) = n - 1}, c \in S}

Texts == SeqsUpTo(Chars, MaxLen)

\* F applied to the value of v, which is computed once
With(v, F(_)) == CHOOSE r \in {F(x) : x \in {v}} : TRUE

RECURSIVE Flatten1(_)
\* utils.flatten on a list of per-element result lists
Flatten1(ls) ==
    IF ls = <<>> THEN <<>> ELSE Head(ls) \o Flatten1(Tail(ls))

RECURSIVE Sum(_)
Sum(ns) == IF ns = <<>> THEN 0 ELSE Head(ns) + Sum(Tail(ns))

\* ------------------------------------------------------------------ str methods
RECURSIVE LStrip(_)
LStrip(s) == IF s # <<>> /\ Head(s) = " " THEN LStrip(Tail(s)) ELSE s

RECURSIVE RStrip(_)
RStrip(s) ==
    IF s # <<>> /\ s[Len(s)] = " " THEN RStrip(SubSeq(s, 1, Len(s) - 1)) ELSE s

\* text.strip()
Strip(s) == RStrip(LStrip(s))

\* text.replace('\x00', '')
RemoveNul(s) == SelectSeq(s, LAMBDA c : c # "NUL")

\* ------------------------------------------------------------------ json.loads
IsDigits(s) == s # <<>> /\ \A i \in DOMAIN s : s[i] = "7"

RECURSIVE DigitsValue(_)
DigitsValue(s) == IF s = <<>> THEN 0 ELSE 10 * DigitsValue(SubSeq(s, 1, Len(s) - 1)) + 7

IsQuoted(s) ==
    /\ Len(s) >= 2
    /\ s[1] = "\""
    /\ s[Len(s)] = "\""
    /\ \A i \in 2..(Len(s) - 1) : s[i] \in {"x", "7", " ", "<a>"}

\* _load_json_or_none: json.loads skips surrounding blanks; a document is a
\* number or a quoted string here, anything else raises ValueError -> None
LoadJsonOrNone(text) ==
    LET body == Strip(text)
    IN IF IsDigits(body) THEN Num(DigitsValue(body))
       ELSE IF IsQuoted(body) THEN Str(SubSeq(body, 2, Len(body) - 1))
       ELSE None

\* ------------------------------------------------------------------ the tree
NoNode == 0
RootId == 1
Nodes == 1..NumNodes

TagOf(n) == IF n = RootId THEN "html" ELSE IF n % 2 = 0 THEN "p" ELSE "b"
TextOf(n) == IF n % 2 = 0 THEN Str(<<"7">>) ELSE None
TailOf(n) == IF n % 3 = 0 THEN Str(<<"x">>) ELSE None
NsOf(n) == IF n = 2 THEN "urn:a" ELSE IF n = 3 THEN "urn:b" ELSE ""

\* the parent of every node but the root is a node before it
Shapes == {p \in [Nodes -> 0..(NumNodes - 1)] :
              /\ p[RootId] = NoNode
              /\ \A n \in Nodes \ {RootId} : p[n] \in 1..(n - 1)}

RECURSIVE ChildrenIn(_, _, _)
ChildrenIn(p, n, c) ==
    IF c > NumNodes THEN <<>>
    ELSE (IF p[c] = n THEN <<c>> ELSE <<>>) \o ChildrenIn(p, n, c + 1)

\* an element: its tag, the namespace of its tag, the namespaces it declares
\* (xmlns attributes), its text, its tail, its parent and its children
Node(tag, ns, nsdef, text, tail, parent, children) ==
    [tag |-> tag, ns |-> ns, nsdef |-> nsdef, text |-> text, tail |-> tail,
     parent |-> parent, children |-> children]

\* where a document declares its namespaces: each on the element that is in
\* it ("own"), all on the root, for the elements below to use ("root"), or
\* on element 2 and once more on the element that uses it ("twice")
DeclPlans == {"own", "root", "twice"}

NsDefOf(plan, n) ==
    CASE plan = "own" -> IF NsOf(n) = "" THEN <<>> ELSE <<NsOf(n)>>
      [] plan = "root" -> IF n = RootId THEN <<"urn:a", "urn:b">> ELSE <<>>
      [] plan = "twice" -> IF n = 2 THEN <<"urn:a", "urn:b">>
                           ELSE IF n = 3 THEN <<"urn:b">> ELSE <<>>

MkTree(p, plan) ==
    [n \in Nodes |-> Node(TagOf(n), NsOf(n), NsDefOf(plan, n),
                          TextOf(n), TailOf(n), p[n], ChildrenIn(p, n, 1))]

\* the documents in which every namespace is declared where it is used
PlainDocuments == {MkTree(p, "own") : p \in Shapes}

\* every element the only child of the one before it
ChainShape == [n \in Nodes |-> n - 1]

\* the shapes and plans of the documents whose elements use a namespace an
\* ancestor declares
InheritingPlans == {<<ChainShape, "root">>, <<ChainShape, "twice">>}

\* the documents a Selector is built on
Documents ==
    PlainDocuments \cup {MkTree(sp[1], sp[2]) : sp \in InheritingPlans}

RECURSIVE Preorder(_, _), PreorderAll(_, _)
\* the elements of the subtree of n, in document order
Preorder(t, n) == <<n>> \o PreorderAll(t, t[n].children)
PreorderAll(t, cs) ==
    IF cs = <<>> THEN <<>> ELSE Preorder(t, Head(cs)) \o PreorderAll(t, Tail(cs))

Range(s) == {s[i] : i \in DOMAIN s}
Subtree(t, n) == Range(Preorder(t, n))

RECURSIVE NodeSeq(_, _), NodeSeqAll(_, _)
\* descendant::node(): the elements and text nodes below n, in document order
NodeSeq(t, n) ==
    (IF t[n].text = None THEN <<>> ELSE <<t[n].text>>) \o NodeSeqAll(t, t[n].children)
NodeSeqAll(t, cs) ==
    IF cs = <<>> THEN <<>>
    ELSE LET c == Head(cs)
         IN <<Elem(c)>> \o NodeSeq(t, c)
            \o (IF t[c].tail = None THEN <<>> ELSE <<t[c].tail>>)
            \o NodeSeqAll(t, Tail(cs))

\* child::text(): the text of n and the tails of its children
TextChildren(t, n) ==
    LET tails == SelectSeq([i \in DOMAIN t[n].children |-> t[t[n].children[i]].tail],
                           LAMBDA x : x # None)
    IN (IF t[n].text = None THEN <<>> ELSE <<t[n].text>>) \o tails

RECURSIVE Dedup(_, _)
Dedup(seen, xs) ==
    IF xs = <<>> THEN <<>>
    ELSE IF Head(xs) \in seen THEN Dedup(seen, Tail(xs))
    ELSE <<Head(xs)>> \o Dedup(seen \cup {Head(xs)}, Tail(xs))

\* the prefix a namespace is declared with in the documents of the model
PrefixOf(uri) == IF uri = "urn:a" THEN "a" ELSE "b"

\* the name of an element as it is written: prefix:tag in a namespace
QName(t, n) ==
    IF t[n].ns = "" THEN Spell(t[n].tag)
    ELSE <<PrefixOf(t[n].ns), ":">> \o Spell(t[n].tag)

RECURSIVE XmlnsAttrs(_)
\* the attributes xmlns:prefix="uri" of a list of declarations
XmlnsAttrs(defs) ==
    IF defs = <<>> THEN <<>>
    ELSE <<" ">> \o Spell("xmlns") \o <<":", PrefixOf(Head(defs)), "=", "\"">>
         \o Spell(Head(defs)) \o <<"\"">> \o XmlnsAttrs(Tail(defs))

RECURSIVE NsDeclsUpTo(_, _, _)
\* the declarations of n and of its ancestors up to the element top, the
\* nearest first; top = NoNode: of all its ancestors
NsDeclsUpTo(t, n, top) ==
    IF n = NoNode THEN <<>>
    ELSE t[n].nsdef \o (IF n = top THEN <<>> ELSE NsDeclsUpTo(t, t[n].parent, top))

\* the declarations the serializer writes on the element it is called on. An
\* element with no parent is written as it is, with its own declarations; of
\* an element with a parent a copy is written that has its own declarations,
\* then the one of the namespace it is in, then the ones of its ancestors,
\* the nearest first, a prefix once
NsDeclsInScope(t, n) ==
    IF t[n].parent = NoNode THEN t[n].nsdef
    ELSE Dedup({}, t[n].nsdef
                   \o (IF t[n].ns = "" THEN <<>> ELSE <<t[n].ns>>)
                   \o NsDeclsUpTo(t, t[n].parent, NoNode))

RECURSIVE SerializeNode(_, _, _, _), SerializeAll(_, _, _)
\* the element n written with the declarations defs; an element below it is
\* written with its own declarations
SerializeNode(t, n, method, defs) ==
    LET open == <<"<">> \o QName(t, n) \o XmlnsAttrs(defs)
        inner == (IF t[n].text = None THEN <<>> ELSE t[n].text.s)
                 \o SerializeAll(t, t[n].children, method)
    IN IF inner = <<>> /\ method = "xml" THEN open \o <<"/", ">">>
       ELSE open \o <<">">> \o inner \o <<"<", "/">> \o QName(t, n) \o <<">">>
SerializeAll(t, cs, method) ==
    IF cs = <<>> THEN <<>>
    ELSE LET c == Head(cs)
         IN SerializeNode(t, c, method, t[c].nsdef)
            \o (IF t[c].tail = None THEN <<>> ELSE t[c].tail.s)
            \o SerializeAll(t, Tail(cs), method)

\* etree.tostring(root, method=..., encoding='unicode', with_tail=False)
Serialize(t, n, method) == SerializeNode(t, n, method, NsDeclsInScope(t, n))

\* the namespaces declared on the element m or above it inside the subtree
\* of n
DeclaredWithin(t, m, n) == Range(NsDeclsUpTo(t, m, n))

\* moveNodeToDocument at the element m of the subtree of n: a declaration of
\* m that repeats one in scope from its parent up to n is cut out (n itself
\* keeps its declarations), and the namespace of m, when nothing from m up to
\* n declares it, is declared on n, after the declarations n has
FixElement(t, n, m) ==
    With(IF m = n THEN t
         ELSE [t EXCEPT ![m].nsdef =
                  SelectSeq(@, LAMBDA u : u \notin DeclaredWithin(t, t[m].parent, n))],
         LAMBDA cut :
            IF cut[m].ns # "" /\ cut[m].ns \notin DeclaredWithin(cut, m, n)
            THEN [cut EXCEPT ![n].nsdef = Append(@, cut[m].ns)]
            ELSE cut)

RECURSIVE FixElements(_, _, _)
FixElements(t, n, ms) ==
    IF ms = <<>> THEN t ELSE FixElements(FixElement(t, n, Head(ms)), n, Tail(ms))

\* moveNodeToDocument, which remove() ends with: the elements of the subtree
\* of n, in document order
FixNamespaces(t, n) == FixElements(t, n, Preorder(t, n))

\* parent.remove(el): el leaves the child list of its parent and has no parent
RemoveDropsWrongChild(t, n) ==
    LET p == t[n].parent
    IN [FixNamespaces(t, n) EXCEPT ![p].children = Tail(@), ![n].parent = NoNode]

LxmlRemove(t, n) ==
    LET p == t[n].parent
    IN [FixNamespaces(t, n) EXCEPT ![p].children = SelectSeq(@, LAMBDA c : c # n),
                                   ![n].parent = NoNode]

\* ------------------------------------------------------------------ create_root_node
EmptyDoc == <<"<html/>">>

\* what the parser answers to an empty document: it raises
SyntaxError == [k |-> "XMLSyntaxError"]

\* a parsed document: its elements, the root first, parents and children by
\* their position in it
Doc(nodes) == [k |-> "doc", nodes |-> nodes]

Plain(tag, text, parent, children) == Node(tag, "", <<>>, text, None, parent, children)

\* the positions of the start tags in a body
TagsAt(body) == SelectSeq([i \in DOMAIN body |-> i], LAMBDA i : body[i] = "<a>")

\* the character data after the start tag at body[tags[k]], up to the next
\* start tag: the text of the element that tag opens
TextAfter(body, tags, k) ==
    LET from == tags[k] + 1
        to == IF k < Len(tags) THEN tags[k + 1] - 1 ELSE Len(body)
    IN IF from > to THEN None ELSE Str(SubSeq(body, from, to))

\* HTMLParser(recover=True): html > body; character data at the start of the
\* body opens a p that takes it as its text, and every start tag closes the
\* a before it and opens an a next to it, in the p when there is one
ParseHtml(body) ==
    LET tags == TagsAt(body)
        lead == SubSeq(body, 1, IF tags = <<>> THEN Len(body) ELSE tags[1] - 1)
        hasP == lead # <<>>
        holder == IF hasP THEN 3 ELSE 2
        elems == [k \in DOMAIN tags |-> holder + k]
    IN <<Plain("html", None, NoNode, <<2>>),
         Plain("body", None, 1, IF hasP THEN <<3>> ELSE elems)>>
       \o (IF hasP THEN <<Plain("p", Str(lead), 2, elems)>> ELSE <<>>)
       \o [k \in DOMAIN tags |-> Plain("a", TextAfter(body, tags, k), holder, <<>>)]

\* XMLParser(recover=True): every start tag opens an a in the a before it,
\* none of them is closed before the end of the body
ParseXml(body) ==
    LET tags == TagsAt(body)
    IN [k \in DOMAIN tags |->
           Plain("a", TextAfter(body, tags, k), k - 1,
                 IF k < Len(tags) THEN <<k + 1>> ELSE <<>>)]

\* etree.fromstring(body, parser=parser_cls(recover=True)): the document, None
\* when the recovering parser finds no element to build, and an error for the
\* empty document; blanks before the first character are skipped
ParseRecover(body, kind) ==
    IF body = <<>> THEN SyntaxError
    ELSE IF body = EmptyDoc THEN Doc(<<Plain("html", None, NoNode, <<>>)>>)
    ELSE With(LStrip(body), LAMBDA s :
            IF s = <<>> THEN None
            ELSE IF kind = "html" THEN Doc(ParseHtml(s))
            ELSE IF Head(s) = "<a>" THEN Doc(ParseXml(s))
            ELSE None)

\* the elements of a parsed document as elements of the arena after base
Placed(nodes, base) ==
    [i \in DOMAIN nodes |->
        [nodes[i] EXCEPT !.parent = IF @ = NoNode THEN NoNode ELSE @ + base,
                         !.children = [j \in DOMAIN @ |-> @[j] + base]]]

\* the document parsed, appended to the arena: [exc, tree, root]
Materialized(t, parsed) ==
    IF parsed = SyntaxError THEN [exc |-> "XMLSyntaxError", tree |-> t, root |-> None]
    ELSE [exc |-> "none", tree |-> t \o Placed(parsed.nodes, Len(t)),
          root |-> Elem(Len(t) + 1)]

CreateRootNodeNoEmptyGuard(t, text, kind) ==
    LET body == RemoveNul(Strip(text))
        parsed == ParseRecover(body, kind)
    IN Materialized(t, IF parsed = None THEN ParseRecover(EmptyDoc, kind) ELSE parsed)

\* create_root_node(text, parser_cls)
CreateRootNode(t, text, kind) ==
    LET stripped == RemoveNul(Strip(text))
        body == IF stripped = <<>> THEN EmptyDoc ELSE stripped
        parsed == ParseRecover(body, kind)
    IN Materialized(t, IF parsed = None THEN ParseRecover(EmptyDoc, kind) ELSE parsed)

\* ------------------------------------------------------------------ namespaces
DefaultNamespaces ==
    ("re" :> "http://exslt.org/regular-expressions") @@ ("set" :> "http://exslt.org/sets")

\* a call without a namespaces argument passes the empty mapping
NoNamespaces == <<>>

\* dict(a).update(b)
DictUpdate(a, b) ==
    [p \in (DOMAIN a) \cup (DOMAIN b) |-> IF p \in DOMAIN b THEN b[p] ELSE a[p]]

\* ------------------------------------------------------------------ Selector
Kinds == {"html", "xml", "json", "text"}
NoType == "none"

Raise(t, exc) == [exc |-> exc, tree |-> t, self |-> None]

\* Selector.__init__(text, type, namespaces, root)
Selector_init(t, text, type, namespaces, root) ==
    LET ns == DictUpdate(DefaultNamespaces, namespaces)
        Made(tt, ty, r) ==
            [exc |-> "none", tree |-> tt,
             self |-> [type |-> ty, root |-> r, namespaces |-> ns, text |-> text]]
    IN IF type \notin Kinds \cup {NoType} THEN Raise(t, "ValueError")
       ELSE IF text = None /\ root = NotSet THEN Raise(t, "ValueError")
       ELSE IF text # None /\ ~IsStr(text) THEN Raise(t, "TypeError")
       ELSE IF text # None
       THEN IF type \in {"html", "xml", NoType}
            THEN With(CreateRootNode(t, text.s, IF type = NoType THEN "html" ELSE type),
                      LAMBDA m : IF m.exc # "none" THEN Raise(t, m.exc)
                                 ELSE Made(m.tree, IF type = NoType THEN "html" ELSE type,
                                           m.root))
            ELSE IF type = "json" THEN Made(t, type, LoadJsonOrNone(text.s))
            ELSE Made(t, type, text)
       ELSE Made(t, IF type = NoType THEN (IF IsElem(root) THEN "html" ELSE "json")
                    ELSE type, root)

\* _ctgroup[type]['_tostring_method']
ToStringMethod(type) == type

RECURSIVE Decimal(_)
Decimal(n) ==
    LET d == <<"0", "1", "2", "3", "4", "5", "6", "7", "8", "9">>
    IN IF n < 10 THEN <<d[n + 1]>> ELSE Decimal(n \div 10) \o <<d[(n % 10) + 1]>>

RECURSIVE ReprChars(_)
\* the characters of a string as repr() writes them between the quotes
ReprChars(s) ==
    IF s = <<>> THEN <<>>
    ELSE (IF Head(s) = "NUL" THEN <<"\\", "x", "0", "0">> ELSE Spell(Head(s)))
         \o ReprChars(Tail(s))

RECURSIVE Repr(_), ReprItems(_), ReprFields(_)
\* repr(value), which str() of a list or a dict writes for its items
Repr(v) ==
    CASE v.k = "str" -> <<"'">> \o ReprChars(v.s) \o <<"'">>
      [] v.k = "num" -> Decimal(v.n)
      [] v.k = "float" -> Decimal(v.n) \o <<".", "0">>
      [] v.k = "none" -> Spell("None")
      [] v.k = "bool" -> Spell(IF v.b THEN "True" ELSE "False")
      [] v.k = "list" -> <<"[">> \o ReprItems(v.items) \o <<"]">>
      [] v.k = "dict" -> <<"{">> \o ReprFields(v.fields) \o <<"}">>
ReprItems(items) ==
    IF items = <<>> THEN <<>>
    ELSE Repr(Head(items))
         \o (IF Tail(items) = <<>> THEN <<>> ELSE <<",", " ">> \o ReprItems(Tail(items)))
ReprFields(fields) ==
    IF fields = <<>> THEN <<>>
    ELSE <<"'", Head(fields)[1], "'", ":", " ">> \o Repr(Head(fields)[2])
         \o (IF Tail(fields) = <<>> THEN <<>> ELSE <<",", " ">> \o ReprFields(Tail(fields)))

\* six.text_type(value): a string is itself, any other value what str() writes
TextType(v) == IF v.k = "str" THEN v.s ELSE Repr(v)

\* Selector.get()
Selector_get(t, s) ==
    IF s.type \in {"text", "json"} THEN s.root
    ELSE IF IsElem(s.root)
         THEN Str(Serialize(t, s.root.id, ToStringMethod(s.type)))
         ELSE IF s.root = Bool(TRUE) THEN Str(<<"1">>)
         ELSE IF s.root = Bool(FALSE) THEN Str(<<"0">>)
         ELSE Str(TextType(s.root))

RemoveSwapsErrors(t, s) ==
    IF ~IsElem(s.root) THEN [exc |-> "CannotRemoveElementWithoutParent", tree |-> t]
    ELSE IF t[s.root.id].parent = NoNode
         THEN [exc |-> "CannotRemoveElementWithoutRoot", tree |-> t]
         ELSE [exc |-> "none", tree |-> LxmlRemove(t, s.root.id)]

RemoveTwiceSucceeds(t, s) ==
    IF ~IsElem(s.root) THEN [exc |-> "CannotRemoveElementWithoutRoot", tree |-> t]
    ELSE IF t[s.root.id].parent = NoNode
         THEN [exc |-> IF s.root.id = RootId THEN "CannotRemoveElementWithoutParent"
                       ELSE "none", tree |-> t]
         ELSE [exc |-> "none", tree |-> LxmlRemove(t, s.root.id)]

\* Selector.remove()
Selector_remove(t, s) ==
    IF ~IsElem(s.root) THEN [exc |-> "CannotRemoveElementWithoutRoot", tree |-> t]
    ELSE IF t[s.root.id].parent = NoNode
         THEN [exc |-> "CannotRemoveElementWithoutParent", tree |-> t]
         ELSE [exc |-> "none", tree |-> LxmlRemove(t, s.root.id)]

\* Selector.remove_namespaces(): every tag below the root loses its namespace,
\* and cleanup_namespaces drops the declarations there, which nothing uses
\* any more: [exc, tree]
Selector_remove_namespaces(t, s) ==
    IF ~IsElem(s.root) THEN [exc |-> "AttributeError", tree |-> t]
    ELSE [exc |-> "none",
          tree |-> [n \in DOMAIN t |->
                       IF n \in Subtree(t, s.root.id)
                       THEN [t[n] EXCEPT !.ns = "", !.nsdef = <<>>]
                       ELSE t[n]]]

\* Selector.register_namespace(prefix, uri)
Selector_register_namespace(s, prefix, uri) ==
    [s EXCEPT !.namespaces = DictUpdate(@, prefix :> uri)]

\* ------------------------------------------------------------------ XPath
\* the XPath expressions of the model: [q |-> form, arg |-> tag or prefix]
\*   self    .                          child   *
\*   dos     descendant-or-self::arg    parent  ..
\*   node    descendant::node()         text    text()
\* a name test without a prefix selects elements in no namespace
\*   count   count(*)                   ns      descendant-or-self::arg:*
\*   bad     an expression the evaluator rejects
XQ(q, arg) == [q |-> q, arg |-> arg]

ElemSeq(ns) == [i \in DOMAIN ns |-> Elem(ns[i])]

\* root.xpath(query, namespaces=nsp, smart_strings=False): a node list, a
\* scalar, or etree.XPathError
XPathEval(t, n, query, nsp) ==
    LET ok(v) == [err |-> FALSE, val |-> v]
    IN CASE query.q = "self" -> ok(List(<<Elem(n)>>))
         [] query.q = "child" -> ok(List(ElemSeq(t[n].children)))
         [] query.q = "dos" ->
              ok(List(ElemSeq(SelectSeq(Preorder(t, n),
                     LAMBDA m : \/ query.arg = "*"
                                \/ t[m].tag = query.arg /\ t[m].ns = ""))))
         [] query.q = "parent" ->
              ok(List(IF t[n].parent = NoNode THEN <<>> ELSE <<Elem(t[n].parent)>>))
         [] query.q = "node" -> ok(List(NodeSeq(t, n)))
         [] query.q = "text" -> ok(List(TextChildren(t, n)))
         [] query.q = "count" -> ok(Float(Len(t[n].children)))
         [] query.q = "ns" ->
              IF query.arg \notin DOMAIN nsp THEN [err |-> TRUE, val |-> None]
              ELSE ok(List(ElemSeq(SelectSeq(Preorder(t, n),
                          LAMBDA m : t[m].ns = nsp[query.arg]))))
         [] OTHER -> [err |-> TRUE, val |-> None]

\* the outcome of a query method: the exception raised ("none": it returned),
\* the tree, the Selector itself and the SelectorList returned
Outcome(exc, t, s, list) == [exc |-> exc, tree |-> t, self |-> s, list |-> list]

\* Selector._load_lxml_root(text, type)
LoadLxmlRoot(t, s, text, type) ==
    IF ~IsStr(text)
    THEN [exc |-> "AttributeError", tree |-> t, self |-> [s EXCEPT !.type = type]]
    ELSE With(CreateRootNode(t, text.s, type), LAMBDA m :
            IF m.exc # "none" THEN [exc |-> m.exc, tree |-> t, self |-> [s EXCEPT !.type = type]]
            ELSE [exc |-> "none", tree |-> m.tree,
                  self |-> [s EXCEPT !.type = type, !.root = m.root]])

PromoteAnyOtherKind(t, s) ==
    IF s.type \notin {"html", "xml"} THEN LoadLxmlRoot(t, s, s.root, "html")
    ELSE [exc |-> "none", tree |-> t, self |-> s]

\* the promotion text -> html that xpath() and css() start with
Promote(t, s) ==
    IF s.type = "text" THEN LoadLxmlRoot(t, s, s.root, "html")
    ELSE IF s.type \notin {"html", "xml"} THEN [exc |-> "ValueError", tree |-> t, self |-> s]
    ELSE [exc |-> "none", tree |-> t, self |-> s]

\* the Selector xpath() wraps a result item in
WrapCallScoped(s, x, nsp) ==
    Selector_init(<<>>, None, s.type, nsp, x).self

WrapResult(s, x, nsp) ==
    Selector_init(<<>>, None, s.type, s.namespaces, x).self

\* Selector.xpath(query, namespaces)
Selector_xpath(t, s0, query, namespaces) ==
    With(Promote(t, s0), LAMBDA p :
       IF p.exc # "none" THEN Outcome(p.exc, p.tree, p.self, <<>>)
       ELSE IF ~IsElem(p.self.root) THEN Outcome("none", p.tree, p.self, <<>>)
       ELSE With(DictUpdate(p.self.namespaces, namespaces), LAMBDA nsp :
            With(XPathEval(p.tree, p.self.root.id, query, nsp), LAMBDA ev :
               IF ev.err THEN Outcome("ValueError", p.tree, p.self, <<>>)
               ELSE With(IF ev.val.k = "list" THEN ev.val.items ELSE <<ev.val>>,
                         LAMBDA items :
                            Outcome("none", p.tree, p.self,
                                    [i \in DOMAIN items |->
                                        WrapResult(p.self, items[i], nsp)])))))

\* Selector._css2xpath: the translator turns "*" and a tag name into a
\* descendant-or-self step
Css2Xpath(query) == XQ("dos", query)

\* Selector.css(query)
Selector_css(t, s0, query) ==
    With(Promote(t, s0), LAMBDA p :
       IF p.exc # "none" THEN Outcome(p.exc, p.tree, p.self, <<>>)
       ELSE Selector_xpath(p.tree, p.self, Css2Xpath(query), NoNamespaces))

\* ------------------------------------------------------------------ JMESPath
\* jmespath.search(query, data) for the expressions "@", "a" and "[*]"
JmesSearch(query, data) ==
    CASE query = "@" -> data
      [] query = "a" ->
           IF data.k = "dict" /\ \E i \in DOMAIN data.fields : data.fields[i][1] = "a"
           THEN data.fields[CHOOSE i \in DOMAIN data.fields : data.fields[i][1] = "a"][2]
           ELSE None
      [] query = "[*]" ->
           IF data.k = "list" THEN List(SelectSeq(data.items, LAMBDA x : x # None))
           ELSE None
      [] OTHER -> None

\* the document jmespath() queries: [exc, data]
JmesData(t, s) ==
    IF s.type = "json" THEN [exc |-> "none", data |-> s.root]
    ELSE IF IsStr(s.root) THEN [exc |-> "none", data |-> LoadJsonOrNone(s.root.s)]
    ELSE IF ~IsElem(s.root) THEN [exc |-> "AttributeError", data |-> None]
    ELSE IF t[s.root.id].text = None
         THEN (IF s.text = None THEN [exc |-> "TypeError", data |-> None]
               ELSE [exc |-> "none", data |-> LoadJsonOrNone(s.text.s)])
         ELSE [exc |-> "none", data |-> LoadJsonOrNone(t[s.root.id].text.s)]

MakeSelectorStringsAlwaysText(t, x, type) ==
    IF IsStr(x) THEN Selector_init(t, x, "text", NoNamespaces, NotSet)
    ELSE Selector_init(t, None, type, NoNamespaces, x)

\* make_selector(x), the closure of jmespath()
MakeSelector(t, x, type) ==
    IF IsStr(x)
    THEN Selector_init(t, x, IF type = NoType THEN "text" ELSE type, NoNamespaces, NotSet)
    ELSE Selector_init(t, None, type, NoNamespaces, x)

\* [make_selector(x) for x in result]: [exc, tree, list]
MakeAll(t, items, type) ==
    LET made[i \in 0..Len(items)] ==
            IF i = 0 THEN [exc |-> "none", tree |-> t, list |-> <<>>]
            ELSE With(made[i - 1], LAMBDA prev :
                    IF prev.exc # "none" THEN prev
                    ELSE With(MakeSelector(prev.tree, items[i], type), LAMBDA m :
                            [exc |-> m.exc, tree |-> m.tree,
                             list |-> Append(prev.list, m.self)]))
    IN made[Len(items)]

\* Selector.jmespath(query, type)
Selector_jmespath(t, s, query, type) ==
    With(JmesData(t, s), LAMBDA d :
       IF d.exc # "none" THEN Outcome(d.exc, t, s, <<>>)
       ELSE With(JmesSearch(query, d.data), LAMBDA found :
            With(IF found = None THEN <<>>
                 ELSE IF found.k = "list" THEN found.items ELSE <<found>>,
                 LAMBDA items :
                    With(MakeAll(t, items, type), LAMBDA all :
                       IF all.exc # "none" THEN Outcome(all.exc, t, s, <<>>)
                       ELSE Outcome("none", all.tree, s, all.list)))))

\* ------------------------------------------------------------------ re
\* a regular expression is the set of the one-character strings it matches
\* extract_regex(regex, text): regex.findall(text) of a character class
ExtractRegex(regex, text) ==
    LET hits == SelectSeq(Characters(text), LAMBDA c : c \in regex)
    IN [i \in DOMAIN hits |-> Str(<<hits[i]>>)]

\* Selector.re(regex): [exc, ret]
Selector_re(t, s, regex) ==
    LET text == Selector_get(t, s)
    IN IF ~IsStr(text) THEN [exc |-> "TypeError", ret |-> <<>>]
       ELSE [exc |-> "none", ret |-> ExtractRegex(regex, text.s)]

\* Selector.re_first(regex, default)
Selector_re_first(t, s, regex, default) ==
    LET r == Selector_re(t, s, regex)
    IN IF r.exc # "none" THEN [exc |-> r.exc, ret |-> None]
       ELSE [exc |-> "none", ret |-> IF r.ret = <<>> THEN default ELSE r.ret[1]]

\* ------------------------------------------------------------------ SelectorList
\* x.method(...) of one element of a list: an Outcome, the list of which is
\* what the call returned
Apply(op, arg, t, x) ==
    CASE op = "xpath" -> Selector_xpath(t, x, arg[1], arg[2])
      [] op = "css" -> Selector_css(t, x, arg[1])
      [] op = "jmespath" -> Selector_jmespath(t, x, arg[1], arg[2])
      [] op = "re" -> With(Selector_re(t, x, arg[1]), LAMBDA r : Outcome(r.exc, t, x, r.ret))

\* [x.method(...) for x in self]: the calls are made in list order and the
\* first exception ends the loop
Broadcast(t, L, op, arg) ==
    LET run[i \in 0..Len(L)] ==
            IF i = 0 THEN [exc |-> "none", tree |-> t, self |-> <<>>, lists |-> <<>>]
            ELSE With(run[i - 1], LAMBDA prev :
                    IF prev.exc # "none" THEN prev
                    ELSE With(Apply(op, arg, prev.tree, L[i]), LAMBDA o :
                            [exc |-> o.exc, tree |-> o.tree,
                             self |-> Append(prev.self, o.self),
                             lists |-> Append(prev.lists, o.list)]))
    IN With(run[Len(L)], LAMBDA end :
          [exc |-> end.exc, tree |-> end.tree,
           self |-> end.self \o SubSeq(L, Len(end.self) + 1, Len(L)),
           lists |-> end.lists])

\* the outcome of a broadcast query: the per-element lists flattened
Flattened(b) ==
    Outcome(b.exc, b.tree, b.self, IF b.exc = "none" THEN Flatten1(b.lists) ELSE <<>>)

ListXpathDedup(t, L, query, namespaces) ==
    With(Broadcast(t, L, "xpath", <<query, namespaces>>),
         LAMBDA b : Outcome(b.exc, b.tree, b.self,
                            IF b.exc = "none" THEN Dedup({}, Flatten1(b.lists)) ELSE <<>>))

\* SelectorList.xpath(xpath, namespaces)
SelectorList_xpath(t, L, query, namespaces) ==
    With(Broadcast(t, L, "xpath", <<query, namespaces>>), Flattened)

\* SelectorList.css(query)
SelectorList_css(t, L, query) ==
    With(Broadcast(t, L, "css", <<query>>), Flattened)

\* SelectorList.jmespath(query, type)
SelectorList_jmespath(t, L, query, type) ==
    With(Broadcast(t, L, "jmespath", <<query, type>>), Flattened)

\* SelectorList.re(regex)
SelectorList_re(t, L, regex) ==
    With(Broadcast(t, L, "re", <<regex>>),
         LAMBDA b : [exc |-> b.exc,
                     ret |-> IF b.exc = "none" THEN Flatten1(b.lists) ELSE <<>>])

\* SelectorList.re_first(regex, default): the first item of the lazily
\* flattened generator (x.re(regex) for x in self)
SelectorList_re_first(t, L, regex, default) ==
    LET scan[i \in 1..(Len(L) + 1)] ==
            IF i > Len(L) THEN [exc |-> "none", ret |-> default]
            ELSE LET r == Selector_re(t, L[i], regex)
                 IN IF r.exc # "none" THEN [exc |-> r.exc, ret |-> None]
                    ELSE IF r.ret # <<>> THEN [exc |-> "none", ret |-> r.ret[1]]
                    ELSE scan[i + 1]
    IN scan[1]

RemoveAllSuppressErrors(t, L) ==
    LET run[i \in 0..Len(L)] ==
            IF i = 0 THEN [exc |-> "none", tree |-> t, idx |-> 0]
            ELSE With(run[i - 1], LAMBDA prev :
                    With(Selector_remove(prev.tree, L[i]), LAMBDA o :
                       IF o.exc # "none" /\ prev.exc = "none"
                       THEN [exc |-> o.exc, tree |-> prev.tree, idx |-> i]
                       ELSE [exc |-> prev.exc, tree |-> o.tree, idx |-> prev.idx]))
    IN run[Len(L)]

\* SelectorList.remove(): [exc, tree, idx], idx the position whose removal
\* raised (0: none did)
SelectorList_remove(t, L) ==
    LET run[i \in 0..Len(L)] ==
            IF i = 0 THEN [exc |-> "none", tree |-> t, idx |-> 0]
            ELSE With(run[i - 1], LAMBDA prev :
                    IF prev.exc # "none" THEN prev
                    ELSE With(Selector_remove(prev.tree, L[i]), LAMBDA o :
                            [exc |-> o.exc, tree |-> o.tree,
                             idx |-> IF o.exc = "none" THEN 0 ELSE i]))
    IN run[Len(L)]

\* ------------------------------------------------------------------ the calls
\* the record of a call: the method, the exception it raised ("none": it
\* returned), the position in lst it was made on (0: on sel, or on lst as a
\* whole; for lst.remove() the position whose removal raised), its argument
\* and what it returned
Call(op, exc, idx, arg, ret) ==
    [op |-> op, exc |-> exc, idx |-> idx, arg |-> arg, ret |-> ret]

NoCall == Call("init", "none", 0, None, None)

TreeQueries ==
    {XQ("self", "*"), XQ("child", "*"), XQ("dos", "*"), XQ("dos", "p"),
     XQ("parent", "*"), XQ("node", "*"), XQ("count", "*"), XQ("bad", "*")}

\* the queries whose results are held in lst
HeldQueries == {XQ("child", "*"), XQ("dos", "*"), XQ("dos", "p"), XQ("node", "*")}

\* lst = sel.xpath(query, namespaces)
Xpath(query, namespaces) ==
    \E o \in {Selector_xpath(tree, sel, query, namespaces)} :
       /\ tree' = o.tree
       /\ sel' = o.self
       /\ lst' = IF o.exc = "none" THEN o.list ELSE lst
       /\ result' = Call("xpath", o.exc, 0, <<query, namespaces>>, None)

\* lst = sel.css(query)
Css(query) ==
    \E o \in {Selector_css(tree, sel, query)} :
       /\ tree' = o.tree
       /\ sel' = o.self
       /\ lst' = IF o.exc = "none" THEN o.list ELSE lst
       /\ result' = Call("css", o.exc, 0, query, None)

\* lst = lst[i:j], SelectorList.__getitem__ of a slice
GetSlice(i, j) ==
    /\ i \in DOMAIN lst
    /\ j \in DOMAIN lst
    /\ i <= j
    /\ j - i < MaxList
    /\ lst' = SubSeq(lst, i, j)
    /\ result' = Call("getitem", "none", 0, None, None)
    /\ UNCHANGED <<tree, sel>>

\* lst = lst.xpath(query, namespaces)
ListXpath(query, namespaces) ==
    /\ lst # <<>>
    /\ Len(lst) <= MaxList
    /\ \E o \in {SelectorList_xpath(tree, lst, query, namespaces)} :
       /\ tree' = o.tree
       /\ lst' = IF o.exc = "none" THEN o.list ELSE o.self
       /\ sel' = sel
       /\ result' = Call("list.xpath", o.exc, 0, <<query, namespaces>>, None)

\* lst[i].remove()
Remove(i) ==
    /\ i \in DOMAIN lst
    /\ \E o \in {Selector_remove(tree, lst[i])} :
          /\ tree' = o.tree
          /\ result' = Call("remove", o.exc, i, None, None)
          /\ UNCHANGED <<sel, lst>>

\* sel.remove()
TopRemove ==
    \E o \in {Selector_remove(tree, sel)} :
       /\ tree' = o.tree
       /\ result' = Call("remove", o.exc, 0, None, None)
       /\ UNCHANGED <<sel, lst>>

\* lst.remove()
ListRemove ==
    /\ lst # <<>>
    /\ \E o \in {SelectorList_remove(tree, lst)} :
       /\ tree' = o.tree
       /\ result' = Call("list.remove", o.exc, o.idx, None, None)
       /\ UNCHANGED <<sel, lst>>

\* Selector(root=<the root element of a parsed document>, type=...)
Init ==
    /\ tree \in Documents
    /\ sel \in {Selector_init(tree, None, ty, NoNamespaces, Elem(RootId)).self :
                   ty \in {NoType, "xml"}}
    /\ lst = <<>>
    /\ result = NoCall

Next ==
    \/ \E q \in HeldQueries : Xpath(q, NoNamespaces)
    \/ \E i, j \in 1..(2 * NumNodes) : GetSlice(i, j)
    \/ \E q \in {XQ("parent", "*"), XQ("dos", "*")} : ListXpath(q, NoNamespaces)
    \/ \E i \in 1..MaxList : Remove(i)
    \/ TopRemove
    \/ ListRemove

Spec == Init /\ [][Next]_vars

\* ------------------------------------------------------------------ removal
\* the elements a list of Selectors holds
HeldElems(L) == {L[i].root.id : i \in {j \in DOMAIN L : IsElem(L[j].root)}}

\* the elements the queries of the model reach from the Selector s
Reached(t, s) ==
    UNION ({HeldElems(Selector_xpath(t, s, q, NoNamespaces).list) : q \in TreeQueries}
           \cup {HeldElems(Selector_css(t, s, c).list) : c \in {"*", "p", "b"}})

RemovedNow == result'.op = "remove" /\ result'.exc = "none"

NoDecls(t) == [m \in DOMAIN t |-> [t[m] EXCEPT !.nsdef = <<>>]]

\* the namespaces an element of the subtree of n uses with no declaration of
\* it on the element or above it inside the subtree: the ones it takes from
\* an ancestor of n
UsedFromAbove(t, n) ==
    {t[m].ns : m \in {k \in Subtree(t, n) :
                          /\ t[k].ns # ""
                          /\ \A a \in Subtree(t, n) :
                                k \in Subtree(t, a) => t[k].ns \notin Range(t[a].nsdef)}}

\* a declaration in the subtree of n repeats one of an element above it in
\* the subtree
RepeatsBelow(t, n) ==
    \E a \in Subtree(t, n) : \E m \in Subtree(t, a) \ {a} :
       Range(t[m].nsdef) \cap Range(t[a].nsdef) # {}

NoRepeat(xs) == \A i, j \in DOMAIN xs : xs[i] = xs[j] => i = j

StoppedAt(r, L) == IF r.exc = "none" THEN Len(L) + 1 ELSE r.idx

\* C3: lst.remove() removes the elements in list order and stops at the first
\* one whose removal raises: the elements before it are detached, that element
\* is one remove() rejects, no other element of the tree changes its parent,
\* and the list keeps its entries.
C3_ListRemoveStopsAtFirstFailure ==
    [][result'.op = "list.remove" =>
          LET i == StoppedAt(result', lst)
              before == {lst[j].root.id : j \in 1..(i - 1)}
          IN /\ lst' = lst
             /\ i \in 1..(Len(lst) + 1)
             /\ \A j \in 1..(i - 1) :
                   /\ IsElem(lst[j].root)
                   /\ tree[lst[j].root.id].parent # NoNode
                   /\ tree'[lst[j].root.id].parent = NoNode
                   /\ \A m \in DOMAIN tree' : lst[j].root.id \notin Range(tree'[m].children)
             /\ i <= Len(lst) =>
                   /\ result'.exc = (IF IsElem(lst[i].root)
                                     THEN "CannotRemoveElementWithoutParent"
                                     ELSE "CannotRemoveElementWithoutRoot")
                   /\ IsElem(lst[i].root) =>
                         \/ tree[lst[i].root.id].parent = NoNode
                         \/ lst[i].root.id \in before
             /\ \A m \in DOMAIN tree : m \notin before => tree'[m].parent = tree[m].parent]_vars

\* lst.remove() raised at a position with an element before it and an element
\* still attached after it
C3_Witness ==
    /\ result.op = "list.remove"
    /\ result.exc # "none"
    /\ result.idx > 1
    /\ \E j \in DOMAIN lst :
          /\ j > result.idx
          /\ IsElem(lst[j].root)
          /\ tree[lst[j].root.id].parent # NoNode

\* the Selector a remove() call of the next state was made on
Removee == IF result'.idx = 0 THEN sel ELSE lst[result'.idx]

\* an element of the document of Init that has lost its parent: every element
\* of it but the root has a parent at first
Detached(t, n) == t[n].parent = NoNode /\ n # RootId

\* C10: remove() on an element that was removed before raises
\* CannotRemoveElementWithoutParent and leaves the tree as it is; lst.remove()
\* on a list that holds an element twice raises it at the second occurrence at
\* the latest; and no call gives a detached element a parent again.
C10_DetachedIsFinal ==
    [][/\ (result'.op = "remove" /\ IsElem(Removee.root) /\ Detached(tree, Removee.root.id))
            => (result'.exc = "CannotRemoveElementWithoutParent" /\ tree' = tree)
       /\ result'.op = "list.remove" =>
             \A j, k \in DOMAIN lst :
                (j < k /\ IsElem(lst[j].root) /\ lst[j].root = lst[k].root)
                   => /\ result'.exc # "none"
                      /\ result'.idx <= k
                      /\ result'.idx = k => result'.exc = "CannotRemoveElementWithoutParent"
       /\ \A n \in DOMAIN tree :
             Detached(tree, n) =>
                /\ n \in DOMAIN tree'
                /\ tree'[n].parent = NoNode
                /\ \A m \in DOMAIN tree' : n \notin Range(tree'[m].children)]_vars

\* remove() was called again on a held Selector whose element is detached
C10_Witness ==
    /\ result.op = "remove"
    /\ result.exc = "CannotRemoveElementWithoutParent"
    /\ result.idx # 0
    /\ Detached(tree, lst[result.idx].root.id)

\* ------------------------------------------------------------------ one Selector
\* lst = sel.jmespath(query, type)
Jmespath(query, type) ==
    \E o \in {Selector_jmespath(tree, sel, query, type)} :
       /\ Len(o.tree) <= MaxHeap
       /\ tree' = o.tree
       /\ sel' = o.self
       /\ lst' = IF o.exc = "none" THEN o.list ELSE lst
       /\ result' = Call("jmespath", o.exc, 0, <<query, type>>, None)

\* sel.get()
GetTop ==
    /\ result' = Call("get", "none", 0, None, Selector_get(tree, sel))
    /\ UNCHANGED <<tree, sel, lst>>

\* sel.re(regex)
ReTop(regex) ==
    \E r \in {Selector_re(tree, sel, regex)} :
       /\ result' = Call("re", r.exc, 0, regex, List(r.ret))
       /\ UNCHANGED <<tree, sel, lst>>

\* sel.register_namespace(prefix, uri)
RegisterNamespace(prefix, uri) ==
    /\ sel' = Selector_register_namespace(sel, prefix, uri)
    /\ result' = Call("register_namespace", "none", 0, <<prefix, uri>>, None)
    /\ UNCHANGED <<tree, lst>>

\* sel.remove_namespaces()
RemoveNamespaces ==
    \E o \in {Selector_remove_namespaces(tree, sel)} :
       /\ tree' = o.tree
       /\ result' = Call("remove_namespaces", o.exc, 0, None, None)
       /\ UNCHANGED <<sel, lst>>

\* the JSON documents a Selector is built on
JsonDocs ==
    {None, Num(7), Str(<<"x">>),
     List(<<Str(<<"x">>), Num(7), None>>),
     List(<<>>),
     Dict(<<<<"a", Str(<<"7">>)>>>>),
     Dict(<<<<"a", List(<<Num(7), Str(<<"<a>">>)>>)>>>>),
     Dict(<<<<"c", Num(7)>>, <<"b", None>>>>)}

\* the empty text, the texts of one character and an element with a text
ShortTexts == {s \in Texts : Len(s) <= 1} \cup {<<"<a>", "7">>}

\* Selector(text=..., type=...) or Selector(root=..., type=...): [tree, self]
Constructed(t) ==
    {[tree |-> m.tree, self |-> m.self] :
        m \in {Selector_init(t, Str(x), ty, NoNamespaces, NotSet) :
                  x \in ShortTexts, ty \in Kinds \cup {NoType}}
              \cup {Selector_init(t, None, ty, NoNamespaces, r) :
                       r \in JsonDocs \cup {Elem(RootId)}, ty \in Kinds \cup {NoType}}}

InitKind ==
    /\ \E doc \in PlainDocuments : \E c \in Constructed(doc) :
          /\ tree = c.tree
          /\ sel = c.self
    /\ lst = <<>>
    /\ result = NoCall

NextKind ==
    \/ \E q \in {XQ("self", "*"), XQ("node", "*"), XQ("count", "*"), XQ("bad", "*")} :
          Xpath(q, NoNamespaces)
    \/ \E c \in {"*", "p"} : Css(c)
    \/ \E q \in {"@", "a"} : Jmespath(q, NoType)
    \/ GetTop
    \/ ReTop({"7"})
    \/ RegisterNamespace("a", "urn:a")
    \/ RemoveNamespaces
    \/ TopRemove
    \/ \E i \in 1..MaxList : Remove(i)

SpecKind == InitKind /\ [][NextKind]_vars

\* C2: remove() on a Selector that wraps a document root (the element the
\* top-level Selector was built on, or the root of the document it parsed)
\* raises CannotRemoveElementWithoutParent, remove() on a Selector whose held
\* value is no element (a text, a number, a JSON value, None) raises
\* CannotRemoveElementWithoutRoot, and neither changes the tree.
C2_RemoveRejectsRootAndNonElement ==
    [][result'.op = "remove" =>
          /\ ~IsElem(Removee.root) =>
                (result'.exc = "CannotRemoveElementWithoutRoot" /\ tree' = tree)
          /\ (IsElem(Removee.root) /\ Removee.root = sel.root) =>
                (result'.exc = "CannotRemoveElementWithoutParent" /\ tree' = tree)]_vars

\* remove() was called on a held text pseudo-selection of a tree query
C2_Witness ==
    /\ result.op = "remove"
    /\ result.idx # 0
    /\ result.exc = "CannotRemoveElementWithoutRoot"
    /\ lst[result.idx].type \in {"html", "xml"}
    /\ IsStr(lst[result.idx].root)

\* C5: the kind of a Selector changes only from text to html, in xpath() or
\* css(); html and xml are kept by every call; xpath() and css() on a Selector
\* of kind json raise ValueError and leave the Selector as it is.
C5_KindOnlyPromotes ==
    [][/\ sel.type \in {"html", "xml"} => sel'.type = sel.type
       /\ sel'.type # sel.type =>
             (sel.type = "text" /\ sel'.type = "html" /\ result'.op \in {"xpath", "css"})
       /\ (sel.type = "json" /\ result'.op \in {"xpath", "css"}) =>
             (result'.exc = "ValueError" /\ sel' = sel /\ tree' = tree)
       /\ (sel.type = "text" /\ result'.op \in {"xpath", "css"}) => sel'.type = "html"]_vars

\* a Selector built of kind text was promoted by a query and holds a tree
C5_Witness ==
    /\ sel.text # None
    /\ sel.type = "html"
    /\ sel.text = Str(<<"x">>)
    /\ IsElem(sel.root)
    /\ tree[sel.root.id].tag = "html"
    /\ result.op = "css"
    /\ result.arg = "p"
    /\ Len(lst) = 1
    /\ tree[lst[1].root.id].text = Str(<<"x">>)

\* ------------------------------------------------------------------ namespaces
Uris == {"urn:a", "urn:b"}

\* the namespaces arguments of the calls: absent, one prefix, two prefixes
CallScoped ==
    {NoNamespaces} \cup {"a" :> u : u \in Uris} \cup {("a" :> "urn:b") @@ ("re" :> "urn:a")}

NsQueries == {XQ("ns", "a"), XQ("ns", "b"), XQ("ns", "re")}

\* Selector(root=<root element>, type=..., namespaces=...)
InitNs ==
    /\ tree \in PlainDocuments
    /\ sel \in {Selector_init(tree, None, ty, n, Elem(RootId)).self :
                   ty \in {NoType, "xml"}, n \in {NoNamespaces, "b" :> "urn:b"}}
    /\ lst = <<>>
    /\ result = NoCall

NextNs ==
    \/ \E q \in NsQueries, n \in CallScoped : Xpath(q, n)
    \/ \E pr \in {"a", "re"}, u \in Uris : RegisterNamespace(pr, u)

SpecNs == InitNs /\ [][NextNs]_vars

\* the URI a prefix has in a call: the call-scoped one, else the registered one
Bound(registry, scoped, prefix) ==
    IF prefix \in DOMAIN scoped THEN scoped[prefix] ELSE registry[prefix]

\* C4: sel.xpath(query, namespaces=N) resolves a prefix by N first and by the
\* registry of sel otherwise (an unbound prefix raises ValueError), leaves the
\* registry of sel as it is, and gives every result the registry of sel, not
\* the entries of N.
C4_CallScopedNamespaces ==
    [][result'.op = "xpath" =>
          LET query == result'.arg[1]
              scoped == result'.arg[2]
              known == (DOMAIN scoped) \cup (DOMAIN sel.namespaces)
          IN /\ sel'.namespaces = sel.namespaces
             /\ sel.namespaces = sel.namespaces @@ DefaultNamespaces
             /\ query.q = "ns" =>
                   IF query.arg \in known
                   THEN /\ result'.exc = "none"
                        /\ HeldElems(lst') =
                              {n \in Subtree(tree, sel.root.id) :
                                  tree[n].ns = Bound(sel.namespaces, scoped, query.arg)}
                   ELSE result'.exc = "ValueError" /\ lst' = lst
             /\ result'.exc = "none" =>
                   \A i \in DOMAIN lst' : lst'[i].namespaces = sel.namespaces]_vars

\* a call-scoped prefix overrode a registered one, matched an element, and the
\* result carries the registered URI
C4_Witness ==
    /\ result.op = "xpath"
    /\ result.exc = "none"
    /\ result.arg[1] = XQ("ns", "a")
    /\ "a" \in DOMAIN result.arg[2]
    /\ "a" \in DOMAIN sel.namespaces
    /\ lst # <<>>
    /\ lst[1].namespaces["a"] # result.arg[2]["a"]
    /\ tree[lst[1].root.id].ns = result.arg[2]["a"]

\* ------------------------------------------------------------------ jmespath
\* lst = lst.jmespath(query, type)
ListJmespath(query, type) ==
    \E o \in {SelectorList_jmespath(tree, lst, query, type)} :
       /\ lst # <<>>
       /\ Len(lst) <= MaxList
       /\ Len(o.tree) <= MaxHeap
       /\ tree' = o.tree
       /\ lst' = IF o.exc = "none" THEN o.list ELSE o.self
       /\ sel' = sel
       /\ result' = Call("list.jmespath", o.exc, 0, <<query, type>>, None)

JmesQueries == {"@", "a", "[*]"}

InitJson == InitKind

NextJson ==
    \/ \E q \in JmesQueries, ty \in Kinds \cup {NoType} : Jmespath(q, ty)
    \/ \E ty \in {"json", NoType} : ListJmespath("@", ty)

SpecJson == InitJson /\ [][NextJson]_vars

\* the items jmespath() wraps: none for a null result, the result itself
\* when it is no list
ResultItems(found) ==
    IF found = None THEN <<>> ELSE IF found.k = "list" THEN found.items ELSE <<found>>

\* what sel.jmespath(query) of the next state's call found
FoundNow == JmesSearch(result'.arg[1], JmesData(tree, sel).data)

JmesReturned == result'.op = "jmespath" /\ result'.exc = "none"

\* C6, as the specification words it: every string item is wrapped with kind text, whether or not
\* a kind is passed, every other item with the kind passed, json by default.
C6_StringsAlwaysText ==
    [][JmesReturned =>
          LET items == ResultItems(FoundNow)
          IN /\ Len(lst') = Len(items)
             /\ \A i \in DOMAIN items :
                   lst'[i].type = IF IsStr(items[i]) THEN "text"
                                  ELSE IF result'.arg[2] = NoType THEN "json"
                                  ELSE result'.arg[2]]_vars

\* C6, amended: sel.jmespath(query, type) wraps every item with the kind
\* passed when one is passed; without one a string item gets kind text, an
\* item that is a tree element (the document of a json Selector built on an
\* element) kind html and every other item kind json.  A null result gives
\* the empty list, a result that is no list a list of one.
C6_KindOfJmespathResults ==
    [][JmesReturned =>
          LET items == ResultItems(FoundNow)
          IN /\ Len(lst') = Len(items)
             /\ FoundNow = None => lst' = <<>>
             /\ (FoundNow # None /\ FoundNow.k # "list") => Len(lst') = 1
             /\ \A i \in DOMAIN items :
                   lst'[i].type = IF result'.arg[2] # NoType THEN result'.arg[2]
                                  ELSE IF IsStr(items[i]) THEN "text"
                                  ELSE IF IsElem(items[i]) THEN "html"
                                  ELSE "json"]_vars

\* a query that was passed the kind json returned a list in which a string
\* item is wrapped next to an item that is no string
C6_Witness ==
    /\ result.op = "jmespath"
    /\ result.exc = "none"
    /\ result.arg[2] = "json"
    /\ Len(lst) >= 2
    /\ \E i \in DOMAIN lst : lst[i].text # None /\ lst[i].type = "json"
    /\ \E i \in DOMAIN lst : lst[i].text = None /\ lst[i].type = "json"

\* ------------------------------------------------------------------ construction
\* the arguments of a construction that is still to be made
InitCtor ==
    /\ tree \in PlainDocuments
    /\ sel = None
    /\ lst = <<>>
    /\ result \in {Call("input", "none", 0, <<Str(x), ty>>, None) :
                      x \in Texts, ty \in Kinds \cup {NoType}}

\* sel = Selector(text=..., type=...)
Construct ==
    /\ result.op = "input"
    /\ \E m \in {Selector_init(tree, result.arg[1], result.arg[2], NoNamespaces, NotSet)} :
          /\ tree' = m.tree
          /\ sel' = m.self
          /\ result' = Call("init", m.exc, 0, result.arg, None)
          /\ UNCHANGED lst

NextCtor ==
    \/ Construct
    \/ (result.op = "init" /\ result.exc = "none" /\ GetTop)

SpecCtor == InitCtor /\ [][NextCtor]_vars

\* C7, as the specification words it: for every text and every kind the construction does not
\* raise and get() returns a string.
C7_GetAlwaysString ==
    /\ result.op = "init" => result.exc = "none"
    /\ result.op = "get" => IsStr(result.ret)

\* a text json.loads accepts has no NUL and is not blank
MayBeJson(text) ==
    /\ \A i \in DOMAIN text : text[i] # "NUL"
    /\ Strip(text) # <<>>

\* C7, amended: for every text and every kind the construction does not raise;
\* get() returns a string for the kinds html, xml, text and for no kind given,
\* and for the kind json the parsed value, which is None for a text that is
\* not JSON, the empty text and a text of NULs among them.
C7_ConstructNeverRaises ==
    /\ result.op = "init" => result.exc = "none"
    /\ result.op = "get" =>
          /\ result.exc = "none"
          /\ sel.type # "json" => IsStr(result.ret)
          /\ sel.type = "json" =>
                /\ result.ret.k \in {"none", "num", "str"}
                /\ ~MayBeJson(sel.text.s) => result.ret = None

\* get() was called on a Selector built from a text of NULs
C7_Witness ==
    /\ result.op = "get"
    /\ sel.text = Str(<<"NUL", "NUL">>)
    /\ sel.type = "html"
    /\ IsStr(result.ret)

\* ------------------------------------------------------------------ lists
\* the outcome of a method of lst that returns a new list or a value: the
\* Selectors of lst are the ones the call has worked on, and what it returned
\* is kept apart from them
Returned(op, arg, o, ret) ==
    /\ lst # <<>>
    /\ Len(o.tree) <= MaxHeap
    /\ tree' = o.tree
    /\ lst' = o.self
    /\ sel' = sel
    /\ result' = Call(op, o.exc, 0, arg, ret)

\* lst.xpath(query)
AllXpath(query) ==
    \E o \in {SelectorList_xpath(tree, lst, query, NoNamespaces)} :
       Returned("list.xpath", <<query, NoNamespaces>>, o, List(o.list))

\* lst.css(query)
AllCss(query) ==
    \E o \in {SelectorList_css(tree, lst, query)} :
       Returned("list.css", <<query>>, o, List(o.list))

\* lst.jmespath(query, type)
AllJmespath(query, type) ==
    \E o \in {SelectorList_jmespath(tree, lst, query, type)} :
       Returned("list.jmespath", <<query, type>>, o, List(o.list))

\* lst.re(regex)
AllRe(regex) ==
    \E r \in {SelectorList_re(tree, lst, regex)} :
       /\ lst # <<>>
       /\ result' = Call("list.re", r.exc, 0, <<regex>>, List(r.ret))
       /\ UNCHANGED <<tree, sel, lst>>

\* lst.re_first(regex, default)
AllReFirst(regex, default) ==
    \E r \in {SelectorList_re_first(tree, lst, regex, default)} :
       /\ result' = Call("list.re_first", r.exc, 0, <<regex, default>>, r.ret)
       /\ UNCHANGED <<tree, sel, lst>>

\* regular expressions: the character classes [x], [7] and [x7]
Regexes == {{"x"}, {"7"}, {"x", "7"}}

ListDocs ==
    {List(<<Str(<<"x">>), Num(7), None>>),
     List(<<Str(<<"\"">>), Str(<<"7", "x">>)>>),
     Dict(<<<<"a", List(<<Str(<<"7">>), Str(<<"<a>", "x">>)>>)>>>>)}

InitList ==
    /\ tree \in PlainDocuments
    /\ sel \in {Selector_init(tree, None, NoType, NoNamespaces, r).self :
                   r \in ListDocs \cup {Elem(RootId)}}
    /\ lst = <<>>
    /\ result = NoCall

NextList ==
    \/ \E q \in {XQ("dos", "*"), XQ("child", "*"), XQ("text", "*")} : Xpath(q, NoNamespaces)
    \/ \E q \in {"[*]", "a"} : Jmespath(q, NoType)
    \/ \E i, j \in 1..(2 * NumNodes) : GetSlice(i, j)
    \/ \E q \in {XQ("dos", "*"), XQ("parent", "*"), XQ("text", "*")} : AllXpath(q)
    \/ \E q \in {"*", "b"} : AllCss(q)
    \/ \E q \in {"[*]", "@"}, ty \in {NoType, "text"} : AllJmespath(q, ty)
    \/ \E r \in Regexes : AllRe(r)
    \/ \E r \in Regexes, d \in {None, Str(<<"\"">>)} : AllReFirst(r, d)

SpecList == InitList /\ [][NextList]_vars

\* what the method of the last call gives on the Selector x
PerElement(x) ==
    CASE result.op = "list.xpath" ->
            Selector_xpath(tree, x, result.arg[1], result.arg[2]).list
      [] result.op = "list.css" -> Selector_css(tree, x, result.arg[1]).list
      [] result.op = "list.jmespath" ->
            Selector_jmespath(tree, x, result.arg[1], result.arg[2]).list
      [] result.op = "list.re" -> Selector_re(tree, x, result.arg[1]).ret

ListQueries == {"list.xpath", "list.css", "list.jmespath", "list.re"}

\* the position in the returned list before the results of lst[i]
Offset(i) == Sum([j \in 1..(i - 1) |-> Len(PerElement(lst[j]))])

\* C8: what xpath, css, jmespath and re of a list return is the results of the
\* same method on its elements, in list order and each in its own order: the
\* length is the sum of their lengths, the k-th result of the i-th element
\* stands at the k-th place after the results of the elements before it, and
\* nothing is left out for being there already.
C8_ListQueriesConcatenate ==
    (result.op \in ListQueries /\ result.exc = "none") =>
        /\ result.ret.k = "list"
        /\ Len(result.ret.items) = Offset(Len(lst) + 1)
        /\ \A i \in DOMAIN lst :
              \A k \in DOMAIN PerElement(lst[i]) :
                 result.ret.items[Offset(i) + k] = PerElement(lst[i])[k]

\* a query on a list returned the same element twice, once for each of two
\* elements of the list
C8_Witness ==
    /\ result.op = "list.xpath"
    /\ result.exc = "none"
    /\ \E i, j \in DOMAIN lst :
          /\ i < j
          /\ \E k \in DOMAIN PerElement(lst[i]), m \in DOMAIN PerElement(lst[j]) :
                /\ PerElement(lst[i])[k] = PerElement(lst[j])[m]
                /\ result.ret.items[Offset(i) + k] = result.ret.items[Offset(j) + m]

\* C9, as the specification words it: re_first of a list is re_first of its first element, and the
\* default for the empty list, whatever the later elements hold.
C9_ReFirstOfFirstElementOnly ==
    (result.op = "list.re_first" /\ result.exc = "none") =>
        result.ret = IF lst = <<>> THEN result.arg[2]
                     ELSE Selector_re_first(tree, lst[1], result.arg[1], result.arg[2]).ret

====
